---- MODULE Spec2Model ----
(***************************************************************************)
(* Conversation-state store (app/dao/agent_state_dao.py) and the chat turn *)
(* pipeline (main.py, app/graph.py, app/agents) of aura-ai.                *)
(*                                                                         *)
(* Python's None is the empty tuple and a present value x is <<x>>, so an  *)
(* optional column is a tuple of length 0 or 1.  A Python string whose     *)
(* characters matter is a tuple of its pieces (characters for a message    *)
(* type, tokens for a message text), so lower(), strip() and "in" are      *)
(* computed.                                                               *)
(***************************************************************************)
EXTENDS Integers, Sequences, FiniteSets, TLC

VARIABLES
    agent_state,   \* the agent_state table: the rows, in insertion order
    now,           \* the clock read by datetime.utcnow()
    sess,          \* the open database sessions of concurrent store calls
    upserted,      \* history: threads upserted and not deleted since
    acked,         \* history: per thread, the signatures its committed upserts carried
    lastOp,        \* history: the last completed store call
    user,          \* the row of the users table read by chat()
    chat_query,    \* the ChatQuery row of the thread, None before the first save
    graph_state,   \* the channel values checkpointed by the graph for the thread
    merged_state,  \* chat(): the dict merged_state of the request being served
    request,       \* chat(): the message and the request_id of that request
    store_up,      \* whether the agent_state store answers during that request
    pc,            \* "idle", or the graph node that runs next, or "finish"
    steps,         \* stage executions so far
    response,      \* the last HTTP response of chat(), None before the first
    ran,           \* history: the stages run for the request, in order
    ctx,           \* history: what the context stage of the request did
    searched,      \* history: the number of products the search returned
    prev_step,     \* history: next_step chosen by the previous request's context stage
    tasks,         \* history: what happened in each process_product task of the request
    syncs,         \* history: the upserts chat() issued for the request, in order
    rank_in,       \* the arguments of a call of rank_merged_images
    rank_out,      \* what that call returned, None before it has
    style          \* a call of styling_agent: its tasks and what it returned

storeVars == <<agent_state, now, sess, upserted, acked, lastOp>>

turnVars == <<user, chat_query, graph_state, merged_state, request, store_up, pc,
              steps, response, ran, ctx, searched, prev_step, tasks, syncs>>

rankVars == <<rank_in, rank_out>>

vars == <<agent_state, now, sess, upserted, acked, lastOp, user, chat_query,
          graph_state, merged_state, request, store_up, pc, steps, response,
          ran, ctx, searched, prev_step, tasks, syncs, rank_in, rank_out, style>>

----------------------------------------------------------------------------
(* Bounds *)

MaxNow == 2          \* upserts per behaviour of the sequential store
MaxRaceNow == 3      \* upserts per behaviour of the concurrent store
MaxMsgLen == 2       \* longest incoming message list of a store call
MaxSteps == 8        \* steps of chat() per behaviour: its start, each stage, its end
MaxResults == 3      \* most products a search returns
MaxRank == 3         \* most candidates of a call of rank_merged_images

----------------------------------------------------------------------------
(* Numbers of the source *)

SearchLimit == 5     \* search_google_shopping(query_filters)[:5]
StyleLimit == 2      \* search_results[:2]
W_STYLE == 40        \* the weights of final_score, in hundredths
W_BRAND == 20
W_COLOR == 20
W_INTENT == 10
W_BEAUTY == 10

\* the nodes a request can run, in the order of the edges
PipelineStages ==
    <<"context_agent", "research_agent", "styling_agent", "ranking_agent">>

----------------------------------------------------------------------------
(* Python values *)

None == <<>>
Some(x) == <<x>>

Min(S) == CHOOSE x \in S : \A y \in S : x <= y
Max(S) == CHOOSE x \in S : \A y \in S : x >= y

\* str.lower(), on the letters that occur in the message types used here
LowerChar(c) ==
    CASE c = "A" -> "a"
      [] c = "H" -> "h"
      [] c = "I" -> "i"
      [] c = "U" -> "u"
      [] OTHER -> c

Lower(s) == [i \in 1..Len(s) |-> LowerChar(s[i])]

\* sub in s
Contains(s, sub) ==
    \E i \in 0..(Len(s) - Len(sub)) : SubSeq(s, i + 1, i + Len(sub)) = sub

\* str.strip()
Strip(s) ==
    LET keep == {i \in 1..Len(s) : s[i] # " "}
    IN  IF keep = {} THEN <<>> ELSE SubSeq(s, Min(keep), Max(keep))

\* dict.get(key): None when the key is absent
Get(state, key) == IF key \in DOMAIN state THEN state[key] ELSE None

----------------------------------------------------------------------------
(* Messages *)

StrHuman == <<"h", "u", "m", "a", "n">>
StrUser == <<"u", "s", "e", "r">>
StrAi == <<"a", "i">>
StrAssistant == <<"a", "s", "s", "i", "s", "t", "a", "n", "t">>

\* _serialize_for_json of one message: a message object (HumanMessage,
\* AIMessage) becomes a dict of its type and content; a dict stays a dict.
SerializeMessage(m) ==
    IF "cls" \in DOMAIN m
    THEN [type |-> IF m.cls = "HumanMessage" THEN StrHuman ELSE StrAi,
          content |-> m.content]
    ELSE m

\* _serialize_for_json of a list of messages
SerializeMessages(ms) == [i \in 1..Len(ms) |-> SerializeMessage(ms[i])]

normalize_type(msg_type) ==
    IF msg_type = <<>> THEN <<>>
    ELSE LET msg_type_lower == Lower(msg_type)
         IN  IF Contains(msg_type_lower, StrHuman) \/ Contains(msg_type_lower, StrUser)
             THEN StrHuman
             ELSE IF Contains(msg_type_lower, StrAi) \/ Contains(msg_type_lower, StrAssistant)
                  THEN StrAi
                  ELSE msg_type_lower

\* f"{msg_type}:{content}" of the normalized type and the stripped content
Signature(msg) == normalize_type(msg.type) \o <<":">> \o Strip(msg.content)

\* Mutant: the set of existing signatures is never filled
SignaturesMissing(msgs) == {}

Signatures(msgs) == {Signature(msgs[i]) : i \in 1..Len(msgs)}

\* the loop over new_messages_serialized
RECURSIVE MergeLoop(_, _, _)
MergeLoop(existing_messages, existing_signatures, new_messages) ==
    IF new_messages = <<>> THEN existing_messages
    ELSE LET new_msg == Head(new_messages)
             signature == Signature(new_msg)
         IN  IF signature \notin existing_signatures
             THEN MergeLoop(Append(existing_messages, new_msg),
                            existing_signatures \cup {signature},
                            Tail(new_messages))
             ELSE MergeLoop(existing_messages, existing_signatures,
                            Tail(new_messages))

\* Mutant: the incoming list replaces the stored one
MergeMessagesReplace(stored, messages) == SerializeMessages(messages)

\* existing_state.messages after the merge of the incoming list
MergeMessages(stored, messages) ==
    LET existing_messages == IF stored = None THEN <<>> ELSE stored[1]
    IN  MergeLoop(existing_messages, Signatures(existing_messages),
                  SerializeMessages(messages))

----------------------------------------------------------------------------
(* Rows of agent_state *)

\* the JSON columns that are overwritten when present
JsonColumns == {"user_profile", "search_results", "selected_item",
                "chat_query_json", "styled_products", "ranked_products",
                "merged_images"}

\* the columns assigned from state.get() without a None check
ScalarColumns == {"current_agent", "user_intent", "next_step"}

StateKeys == {"messages"} \cup JsonColumns \cup ScalarColumns

Columns == {"thread_id", "user_id", "request_id", "created_at", "updated_at"}
               \cup StateKeys

\* the branch "if existing_state:" up to the commit
UpdateExisting(existing_state, user_id, state, request_id, ts) ==
    [c \in Columns |->
        CASE c = "user_id" -> user_id
          [] c = "request_id" -> request_id
          [] c \in ScalarColumns -> Get(state, c)
          [] c = "messages" ->
                IF Get(state, "messages") # None
                THEN Some(MergeMessages(existing_state.messages,
                                        Get(state, "messages")[1]))
                ELSE existing_state.messages
          [] c \in JsonColumns ->
                IF Get(state, c) # None THEN Get(state, c) ELSE existing_state[c]
          [] c = "updated_at" -> ts
          [] OTHER -> existing_state[c]]

\* the branch "else:" that builds the new AgentStateTable
CreateNew(thread_id, user_id, state, request_id, ts) ==
    [c \in Columns |->
        CASE c = "thread_id" -> thread_id
          [] c = "user_id" -> user_id
          [] c = "request_id" -> request_id
          [] c = "messages" ->
                IF Get(state, "messages") # None
                THEN Some(SerializeMessages(Get(state, "messages")[1]))
                ELSE None
          [] c \in {"created_at", "updated_at"} -> ts
          [] OTHER -> Get(state, c)]

\* positions of the rows of a thread
RowsOf(table, thread_id) ==
    {i \in 1..Len(table) : table[i].thread_id = thread_id}

\* scalar_one_or_none() raises MultipleResultsFound on more than one row
SelectRaises(table, thread_id) == Cardinality(RowsOf(table, thread_id)) > 1

\* select(...).where(thread_id == ...) ; scalar_one_or_none()
SelectOne(table, thread_id) ==
    LET rows == RowsOf(table, thread_id)
    IN  IF rows = {} THEN None ELSE Some(table[Min(rows)])

\* Mutant: thread_id is no key, no INSERT is rejected
InsertRaisesNever(table, thread_id) == FALSE

\* the primary key thread_id rejects the INSERT of a second row of a thread
\* (IntegrityError at the commit)
InsertRaises(table, thread_id) == RowsOf(table, thread_id) # {}

\* INSERT of a row that is not rejected
InsertRow(table, row) == Append(table, row)

\* UPDATE ... WHERE thread_id = pk, as flushed by the ORM: the columns whose
\* value differs from the loaded one are written; no matching row raises
\* StaleDataError and writes nothing
UpdateRow(table, loaded, new) ==
    [i \in 1..Len(table) |->
        IF table[i].thread_id = loaded.thread_id
        THEN [c \in Columns |-> IF new[c] # loaded[c] THEN new[c] ELSE table[i][c]]
        ELSE table[i]]

\* what the commit of a sync_agent_state_from_checkpoint call leaves in the
\* table, given the row its select loaded
SyncCommit(table, loaded, thread_id, user_id, state, request_id, ts) ==
    IF loaded = None
    THEN InsertRow(table, CreateNew(thread_id, user_id, state, request_id, ts))
    ELSE UpdateRow(table, loaded[1],
                   UpdateExisting(loaded[1], user_id, state, request_id, ts))

\* the columns of existing_state in the order the update branch assigns them
AssignOrder ==
    <<"user_id", "request_id", "current_agent", "user_intent", "next_step",
      "messages", "user_profile", "search_results", "selected_item",
      "chat_query_json", "styled_products", "ranked_products", "merged_images",
      "updated_at">>

\* existing_state in the session after the first k assignments of the update
\* branch, new being what all of them would leave
PartialUpdate(existing_state, new, k) ==
    [c \in Columns |->
        IF \E i \in 1..k : AssignOrder[i] = c THEN new[c] ELSE existing_state[c]]

\* Mutant: the assignments made so far reach the table
RollbackWrites(table, loaded, pending) == UpdateRow(table, loaded, pending)

\* an exception leaves "async with async_session() as session" before the
\* commit: the session closes, what it holds pending is discarded
Rollback(table, loaded, pending) == table

\* TRUE when that commit raises instead of writing
SyncFails(table, loaded, thread_id) ==
    IF loaded = None THEN InsertRaises(table, thread_id)
    ELSE RowsOf(table, thread_id) = {}

\* a whole call with nothing interleaved between its select and its commit
sync_agent_state_from_checkpoint(table, thread_id, user_id, state, request_id, ts) ==
    SyncCommit(table, SelectOne(table, thread_id), thread_id, user_id, state,
               request_id, ts)

\* get_agent_state: no row, the row, or the most recently updated of several
get_agent_state(table, thread_id) ==
    LET rows == RowsOf(table, thread_id)
    IN  IF rows = {} THEN None
        ELSE LET newest == Max({table[i].updated_at : i \in rows})
             IN  Some(table[Min({i \in rows : table[i].updated_at = newest})])

\* delete_agent_state: the table without the rows of the thread
DeleteRows(table, thread_id) ==
    SelectSeq(table, LAMBDA r : r.thread_id # thread_id)

----------------------------------------------------------------------------
(* The chat turn: values *)

\* the thread and the user of the chat requests
ChatThread == "t1"
ChatUser == "u1"

\* embeddings: vectors of integers whose norm is 0 or 1.  An image embedding
\* (768 numbers in the source) has two components here, a color embedding
\* (256 numbers) has one.
\* the embedding of a merged image
EmbPool == {<<1, 0>>}
\* np.zeros(768)
ZeroVector == <<0, 0>>
\* the normalized color histogram, and np.zeros(256) when its extraction failed
ColorPool == {<<1>>, <<0>>}

\* generate_user_embeddings: the brand and intent embeddings are copies of
\* the style embedding, the color embedding comes from the histogram
UserEmbeddings(style_embedding, color_embedding) ==
    [style_embedding |-> style_embedding, brand_embedding |-> style_embedding,
     color_embedding |-> color_embedding, intent_embedding |-> style_embedding]

\* user_to_profile(user): chat() refuses a user without photos, so every
\* profile that reaches the graph has photo_urls; user_embeddings is None until
\* the embeddings were generated
Profile(user_embeddings) ==
    [user_id |-> ChatUser, photo_urls |-> <<"photo1", "photo2">>,
     user_embeddings |-> user_embeddings]

Profiles ==
    {Profile(None)}
        \cup {Profile(Some(UserEmbeddings(<<1, 0>>, color))) : color \in ColorPool}

HumanMessage(content) == [cls |-> "HumanMessage", content |-> content]
AIMessage(content) == [cls |-> "AIMessage", content |-> content]

\* request.message: a text is a tuple of tokens; "I" is a token of the
\* clarification question
UserTexts == {<<"recommend me some shirts">>, <<"I">>}

\* Python truthiness of an Optional[str] or Optional[list]
Truthy(v) == v # None /\ v[1] # <<>>

RECURSIVE Join(_, _)
\* sep.join(parts)
Join(sep, parts) ==
    IF parts = <<>> THEN <<>>
    ELSE IF Len(parts) = 1 THEN parts
    ELSE <<Head(parts), sep>> \o Join(sep, Tail(parts))

ClarifyText(missing_fields) ==
    <<"To generate the best recommendations, ", "I", " need to know the ">>
        \o Join(", ", missing_fields) \o <<".">>

TxtGreat ==
    <<"Great! ", "I", " have all the details needed to find some recommendations for you. Let's get started.">>
TxtLlm == <<"Sure, noted.">>
TxtNoQuery ==
    <<"I", " couldn't find the search query. Please try again with a product search.">>
TxtNoProducts ==
    <<"I", " couldn't find any products matching your criteria. Please try adjusting your search.">>
FoundText(product_count) ==
    <<"I", " found ", ToString(product_count), " product(s) that match your criteria.",
      " Here are the top results.">>
TxtNoItems == <<"I", " couldn't find any items to style.">>
TxtMergeError ==
    <<"I", " encountered an error while processing the images. Please try again.">>
TxtStyled == <<"Here are your product recommendations!">>
TxtNoStyled == <<"No styled products to rank.">>
TxtNoEmbeddings ==
    <<"User preference embeddings not found. Cannot rank products without user profile.">>
RankedText(n) ==
    <<"I", "'ve ranked ", ToString(n),
      " products based on your preferences and style. Here are the top recommendations.">>
TxtProcessing == <<"I", "'m processing your request. Please wait...">>

----------------------------------------------------------------------------
(* The stage agents *)

\* the fields of ChatQuery that decide the route; budget_range, month_of_visit
\* and color are merged and saved the same way and decide nothing
QueryFields == {"destination", "product_type", "occasion"}

\* what extract_chat_query_tool returns for the last message
Extractions ==
    {[query |-> <<"shirt">>, destination |-> None, product_type |-> None,
      occasion |-> None],
     [query |-> <<"shirt">>, destination |-> Some(<<"Paris">>),
      product_type |-> Some(<<"shirt">>), occasion |-> Some(<<"beach">>)],
     [query |-> <<" ">>, destination |-> Some(<<"Paris">>),
      product_type |-> Some(<<"shirt">>), occasion |-> Some(<<"beach">>)],
     [query |-> <<"beach">>, destination |-> Some(<<>>), product_type |-> None,
      occasion |-> Some(<<"beach">>)]}

\* new_chat_query: the extracted value if truthy, else the stored one
NewChatQuery(extracted_data, result) ==
    [f \in QueryFields |->
        IF Truthy(extracted_data[f]) THEN extracted_data[f]
        ELSE IF result # None THEN result[1][f] ELSE None]

MissingFields(query_to_check) ==
    (IF ~Truthy(query_to_check.destination) THEN <<"destination">> ELSE <<>>)
        \o (IF ~Truthy(query_to_check.product_type) THEN <<"product type">> ELSE <<>>)
        \o (IF ~Truthy(query_to_check.occasion) THEN <<"occasion">> ELSE <<>>)

\* the dict context_agent returns after a committed save
RoutedUpdate(query_to_check) ==
    IF MissingFields(query_to_check) # <<>>
    THEN [user_intent |-> Some("clarification"),
          next_step |-> Some("clarification_agent"),
          current_agent |-> Some("context_agent"),
          messages |-> Some(<<AIMessage(ClarifyText(MissingFields(query_to_check)))>>)]
    ELSE [user_intent |-> Some("recommendation"),
          next_step |-> Some("research_agent"),
          current_agent |-> Some("context_agent"),
          messages |-> Some(<<AIMessage(TxtGreat)>>)]

\* the context stage hands the record it saved on to the research stage
WithChatQuery(update, query_to_check) ==
    [k \in DOMAIN update \cup {"chat_query_json"} |->
        IF k = "chat_query_json" THEN Some(query_to_check) ELSE update[k]]

\* the Router tool call of the LLM, taken when the save raised
LlmSteps == {"research_agent", "styling_agent", "fulfillment_agent", "END"}

LlmUpdate(next_step) ==
    [user_intent |-> Some("general_chat"), next_step |-> Some(next_step),
     current_agent |-> Some("context_agent"),
     messages |-> Some(<<AIMessage(TxtLlm)>>)]

\* router(state): the node after context_agent
router(state) ==
    IF Get(state, "next_step") = Some("research_agent") THEN "research_agent"
    ELSE IF Get(state, "next_step") = Some("clarification_agent")
         THEN "clarification_agent"
         ELSE "finish"

\* the products a search can return, best first
ProductPool == <<"p1", "p2", "p3", "p4", "p5", "p6", "p7">>

\* research_agent, given what search_google_shopping returned
ResearchUpdate(chat_query_json, results) ==
    IF chat_query_json = None
    THEN [messages |-> Some(<<AIMessage(TxtNoQuery)>>),
          search_results |-> Some(<<>>),
          current_agent |-> Some("research_agent")]
    ELSE LET products == SubSeq(results, 1, Min({SearchLimit, Len(results)}))
         IN  IF products = <<>>
             THEN [messages |-> Some(<<AIMessage(TxtNoProducts)>>),
                   search_results |-> Some(<<>>),
                   current_agent |-> Some("research_agent")]
             ELSE [messages |-> Some(<<AIMessage(FoundText(Len(products)))>>),
                   search_results |-> Some(products),
                   current_agent |-> Some("research_agent")]

\* what can happen in one process_product task: merge_images raises; the CLIP
\* model fails to load (_load_model, called before the try of
\* get_image_embedding); the embedding fails inside that try; or both succeed
TaskOutcomes ==
    {[merge |-> "raises", embedding |-> "none", vec |-> ZeroVector],
     [merge |-> "ok", embedding |-> "load_raises", vec |-> ZeroVector],
     [merge |-> "ok", embedding |-> "fails", vec |-> ZeroVector]}
        \cup {[merge |-> "ok", embedding |-> "ok", vec |-> e] : e \in EmbPool}

\* EmbeddingService.get_image_embedding; None is the exception of _load_model
get_image_embedding(outcome) ==
    IF outcome.embedding = "load_raises" THEN None
    ELSE IF outcome.embedding = "fails" THEN Some(ZeroVector)
    ELSE Some(outcome.vec)

\* process_product: the embedding of the ProductWithEmbedding it returns, None
\* when its except branch returned None
process_product(outcome) ==
    IF outcome.merge = "raises" THEN None ELSE get_image_embedding(outcome)

\* ProductWithEmbedding built by process_product for the product at position
\* idx; uuid4 is a value no other call produces
StyledProduct(request_id, idx, product, embedding, photo) ==
    [id |-> <<"prod", request_id, idx>>, product |-> product,
     embedding |-> embedding, user_photo_url |-> photo,
     merged_image_url |-> <<"merged", request_id, idx>>]

\* Mutant: every search result is selected
SelectProductsAll(search_results) == search_results

\* selected_products = search_results[:2]
SelectProducts(search_results) ==
    SubSeq(search_results, 1, Min({StyleLimit, Len(search_results)}))

\* styling_agent, given the photo random.choice picked and, per selected
\* product, the embedding of its merged image or None when its task failed
StylingUpdate(state, request_id, photo, outcomes) ==
    LET search_results == Get(state, "search_results")
        user_profile == Get(state, "user_profile")
    IN  IF ~Truthy(search_results)
        THEN [messages |-> Some(<<AIMessage(TxtNoItems)>>),
              current_agent |-> Some("styling_agent"),
              next_step |-> None,
              styled_products |-> Some(<<>>)]
        ELSE LET selected_products == SelectProducts(search_results[1])
                 done == SelectSeq([i \in 1..Len(selected_products) |-> i],
                                   LAMBDA i : outcomes[i] # None)
                 styled_products ==
                     [k \in 1..Len(done) |->
                         StyledProduct(request_id, done[k],
                                       selected_products[done[k]],
                                       outcomes[done[k]][1], photo)]
             IN  IF styled_products = <<>>
                 THEN [messages |-> Some(<<AIMessage(TxtMergeError)>>),
                       current_agent |-> Some("styling_agent"),
                       next_step |-> None,
                       styled_products |-> Some(<<>>),
                       merged_images |-> Some(<<>>)]
                 ELSE [messages |-> Some(<<AIMessage(TxtStyled)>>),
                       current_agent |-> Some("styling_agent"),
                       next_step |-> Some("ranking_agent"),
                       styled_products |-> Some(styled_products),
                       merged_images |->
                           Some([k \in 1..Len(styled_products) |->
                                    styled_products[k].merged_image_url]),
                       user_profile |-> user_profile]

RECURSIVE Dot(_, _)
\* np.dot of two vectors of one length
Dot(a, b) == IF a = <<>> THEN 0 ELSE a[1] * b[1] + Dot(Tail(a), Tail(b))

\* np.linalg.norm, exact on the vectors used here
Norm(v) == CHOOSE n \in 0..Dot(v, v) : n * n = Dot(v, v)

\* np.dot raises ValueError (shapes not aligned) on vectors of two lengths;
\* it is reached when neither norm is 0
CosineRaises(vec_a, vec_b) ==
    Norm(vec_a) # 0 /\ Norm(vec_b) # 0 /\ Len(vec_a) # Len(vec_b)

\* Mutant: a vector of norm 0 is taken to be similar to every vector
compute_cosine_similarity_one(vec_a, vec_b) ==
    IF Norm(vec_a) = 0 \/ Norm(vec_b) = 0 THEN 1
    ELSE Dot(vec_a, vec_b) \div (Norm(vec_a) * Norm(vec_b))

compute_cosine_similarity(vec_a, vec_b) ==
    IF Norm(vec_a) = 0 \/ Norm(vec_b) = 0 THEN 0
    ELSE Dot(vec_a, vec_b) \div (Norm(vec_a) * Norm(vec_b))

\* Mutant: the style and the beauty weights change places
FinalScoreSwapped(user_embedding, img_vec, beauty_standard_embedding) ==
    W_BEAUTY * compute_cosine_similarity(user_embedding.style_embedding, img_vec)
    + W_BRAND * compute_cosine_similarity(user_embedding.brand_embedding, img_vec)
    + W_COLOR * compute_cosine_similarity(user_embedding.color_embedding, img_vec)
    + W_INTENT * compute_cosine_similarity(user_embedding.intent_embedding, img_vec)
    + W_STYLE * compute_cosine_similarity(beauty_standard_embedding, img_vec)

\* final_score, in hundredths
FinalScore(user_embedding, img_vec, beauty_standard_embedding) ==
    W_STYLE * compute_cosine_similarity(user_embedding.style_embedding, img_vec)
    + W_BRAND * compute_cosine_similarity(user_embedding.brand_embedding, img_vec)
    + W_COLOR * compute_cosine_similarity(user_embedding.color_embedding, img_vec)
    + W_INTENT * compute_cosine_similarity(user_embedding.intent_embedding, img_vec)
    + W_BEAUTY * compute_cosine_similarity(beauty_standard_embedding, img_vec)

\* Mutant: the sort puts the later of two equal scores first
SortsBeforeUnstable(a, b) == a[2] > b[2] \/ (a[2] = b[2] /\ a[1] > b[1])

\* scores.sort(key=lambda x: x[1], reverse=True) on the (idx, final_score)
\* pairs: the higher score first; list.sort is stable, also with reverse, so
\* of two equal scores the pair appended first stays first
SortsBefore(a, b) == a[2] > b[2] \/ (a[2] = b[2] /\ a[1] < b[1])

\* TRUE when one of the five similarities of some candidate raises
RankRaises(user_embedding, merged_image_embeddings, beauty_standard_embedding) ==
    \E i \in 1..Len(merged_image_embeddings) :
        LET img_vec == merged_image_embeddings[i]
        IN  \/ CosineRaises(user_embedding.style_embedding, img_vec)
            \/ CosineRaises(user_embedding.brand_embedding, img_vec)
            \/ CosineRaises(user_embedding.color_embedding, img_vec)
            \/ CosineRaises(user_embedding.intent_embedding, img_vec)
            \/ CosineRaises(beauty_standard_embedding, img_vec)

\* the indices (from 0, as enumerate gives them) sorted by score
rank_merged_images(user_embedding, merged_image_embeddings, beauty_standard_embedding) ==
    LET n == Len(merged_image_embeddings)
        scores == [i \in 1..n |->
                      <<i - 1, FinalScore(user_embedding, merged_image_embeddings[i],
                                          beauty_standard_embedding)>>]
    IN  [k \in 1..n |->
            scores[CHOOSE i \in 1..n :
                      Cardinality({j \in 1..n : SortsBefore(scores[j], scores[i])})
                          = k - 1][1]]

\* get_beauty_standard_embedding(): the placeholder of zeros
BeautyStandard == ZeroVector

\* the embeddings ranking_agent hands to rank_merged_images
MergedImageEmbeddings(styled_products) ==
    [i \in 1..Len(styled_products) |-> styled_products[i].embedding]

\* TRUE when ranking_agent raises: rank_merged_images is its one call that can
RankingRaises(state) ==
    LET styled_products == Get(state, "styled_products")
        user_profile == Get(state, "user_profile")
    IN  /\ Truthy(styled_products)
        /\ user_profile[1].user_embeddings # None
        /\ RankRaises(user_profile[1].user_embeddings[1],
                      MergedImageEmbeddings(styled_products[1]), BeautyStandard)

ranking_agent(state) ==
    LET styled_products == Get(state, "styled_products")
        user_profile == Get(state, "user_profile")
    IN  IF ~Truthy(styled_products)
        THEN [messages |-> Some(<<AIMessage(TxtNoStyled)>>),
              current_agent |-> Some("ranking_agent"),
              next_step |-> None,
              ranked_products |-> Some(<<>>)]
        ELSE IF user_profile[1].user_embeddings = None
        THEN [messages |-> Some(<<AIMessage(TxtNoEmbeddings)>>),
              current_agent |-> Some("ranking_agent"),
              next_step |-> None,
              ranked_products |-> styled_products]
        ELSE LET ranked_indices ==
                     rank_merged_images(
                         user_profile[1].user_embeddings[1],
                         MergedImageEmbeddings(styled_products[1]),
                         BeautyStandard)
                 ranked_products ==
                     [k \in 1..Len(ranked_indices) |->
                         styled_products[1][ranked_indices[k] + 1]]
             IN  [messages |-> Some(<<AIMessage(RankedText(Len(ranked_products)))>>),
                  current_agent |-> Some("ranking_agent"),
                  next_step |-> None,
                  ranked_products |-> Some(ranked_products)]

----------------------------------------------------------------------------
(* chat(): the request handler around the graph *)

\* the message objects rebuilt from the stored dicts
DeserializeMessages(messages_data) ==
    [i \in 1..Len(messages_data) |->
        LET msg_type == Lower(messages_data[i].type)
        IN  IF Contains(msg_type, StrHuman) \/ Contains(msg_type, StrUser)
            THEN HumanMessage(messages_data[i].content)
            ELSE AIMessage(messages_data[i].content)]

\* the state of the row chat() creates for a thread that has none
InitialState ==
    [k \in StateKeys |->
        IF k \in {"messages", "search_results"} THEN Some(<<>>) ELSE None]

\* the channels of the graph: the keys of AgentState
Channels ==
    {"request_id", "user_profile", "thread_id", "messages", "selected_item",
     "next_step", "user_intent", "current_agent", "chat_query_json",
     "search_results", "styled_products", "ranked_products"}

\* what StateGraph(AgentState) takes of the dict a node returns, and what
\* astream yields for the node: the keys that are channels; any other key is
\* dropped
ChannelWrites(update) == [k \in DOMAIN update \cap Channels |-> update[k]]

\* a node's update written to the channels: messages goes through the
\* add_messages reducer, every other channel takes the last value
ApplyUpdate(channels, update) ==
    [k \in DOMAIN channels \cup DOMAIN update |->
        IF k \notin DOMAIN update THEN channels[k]
        ELSE IF k = "messages" /\ k \in DOMAIN channels
             THEN Some(channels[k][1] \o update[k][1])
             ELSE update[k]]

\* merged_state.update(agent_state), then the two restores
AfterAgent(state, update) ==
    LET updated == [k \in DOMAIN state \cup DOMAIN update |->
                       IF k \in DOMAIN update THEN update[k]
                       ELSE state[k]]
    IN  [k \in DOMAIN updated |->
            IF k = "user_profile" /\ Get(state, k) # None /\ updated[k] = None
            THEN state[k]
            ELSE IF k = "messages" /\ ~Truthy(updated[k]) /\ Truthy(Get(state, k))
                 THEN state[k]
                 ELSE updated[k]]

WithMessages(state, messages) ==
    [k \in DOMAIN state \cup {"messages"} |->
        IF k = "messages" THEN Some(messages) ELSE state[k]]

\* Mutant: the loop never returns early
EarlyReturnNever(state, agent_name) == FALSE

\* the test that ends the request inside the loop
EarlyReturn(state, agent_name) ==
    LET current_agent == IF Get(state, "current_agent") # None
                         THEN state["current_agent"][1] ELSE agent_name
    IN  /\ \/ Get(state, "next_step") = Some("clarification_agent")
           \/ Get(state, "next_step") = Some("END")
           \/ current_agent = "clarification_agent"
           \/ agent_name = "clarification_agent"
        /\ Truthy(Get(state, "messages"))

\* Mutant: the stage upsert is given the whole state
WithoutMessagesKeeps(state) == state

WithoutMessages(state) == [k \in DOMAIN state \ {"messages"} |-> state[k]]

\* Mutant: the early return stores the state without its messages
EarlyMessagesNone(messages, message) == <<>>

\* the messages stored by the early return
EarlyMessages(messages, message) ==
    LET response_text == messages[Len(messages)].content
        user_message_found ==
            \E i \in 1..Len(messages) : Contains(messages[i].content, message)
        with_user == IF user_message_found THEN messages
                     ELSE <<HumanMessage(message)>> \o messages
    IN  IF Contains(with_user[Len(with_user)].content, response_text)
        THEN with_user
        ELSE Append(with_user, AIMessage(response_text))

\* the messages stored after the graph has finished
FinalMessages(final_messages, message) ==
    LET response_text == final_messages[Len(final_messages)].content
        user_message_found ==
            \E i \in 1..Len(final_messages) :
                \/ final_messages[i].cls = "HumanMessage"
                \/ Contains(final_messages[i].content, message)
        with_user == IF user_message_found THEN final_messages
                     ELSE <<HumanMessage(message)>> \o final_messages
        last_msg == with_user[Len(with_user)]
    IN  IF last_msg.cls = "AIMessage" \/ Contains(last_msg.content, response_text)
        THEN with_user
        ELSE Append(with_user, AIMessage(response_text))

\* ChatResponse of the early return, of the end of the graph, and the
\* HTTPException of the outer except
EarlyResponse(state) ==
    [status |-> 200,
     response |-> state["messages"][1][Len(state["messages"][1])].content,
     ranked_products |-> None, styled_products |-> None, merged_images |-> None]

\* Mutant: the response carries no products
FinalResponseNoProducts(final_result) ==
    [status |-> 200,
     response |-> final_result["messages"][1][Len(final_result["messages"][1])].content,
     ranked_products |-> None, styled_products |-> None, merged_images |-> None]

FinalResponse(final_result) ==
    LET messages == Get(final_result, "messages")
        ranked_products == Get(final_result, "ranked_products")
        styled_products == Get(final_result, "styled_products")
        merged_images == Get(final_result, "merged_images")
    IN  IF ~Truthy(messages)
        THEN [status |-> 200, response |-> TxtProcessing,
              ranked_products |-> None, styled_products |-> None,
              merged_images |-> None]
        ELSE [status |-> 200,
              response |-> messages[1][Len(messages[1])].content,
              ranked_products |->
                  IF Truthy(ranked_products) THEN ranked_products ELSE None,
              styled_products |->
                  IF ~Truthy(ranked_products) /\ Truthy(styled_products)
                  THEN styled_products ELSE None,
              merged_images |->
                  IF Truthy(merged_images) THEN merged_images ELSE None]

ErrorResponse ==
    [status |-> 500, response |-> <<>>, ranked_products |-> None,
     styled_products |-> None, merged_images |-> None]

----------------------------------------------------------------------------
(* The calls made on the store *)

Threads == {"t1", "t2"}
Sessions == {1, 2}

MsgHumanA == [type |-> StrHuman, content |-> <<"a">>]
MsgUserA == [type |-> <<"U", "s", "e", "r">>, content |-> <<" ", "a">>]
MsgAiB == [type |-> StrAi, content |-> <<"b">>]
MsgPool == {MsgHumanA, MsgUserA, MsgAiB}

MsgLists(n) == UNION {[1..k -> MsgPool] : k \in 0..n}

\* chat_query_json records (ChatQuery), by their optional sub-fields
CqParis == [destination |-> Some("Paris"), occasion |-> None]
CqBeach == [destination |-> None, occasion |-> Some("beach")]

ValuesOf(key) == IF key = "chat_query_json" THEN {CqParis, CqBeach} ELSE {"v1"}

\* a state dict with every key present
FullState ==
    [k \in StateKeys |->
        CASE k = "messages" -> Some(<<MsgHumanA, MsgAiB>>)
          [] k = "chat_query_json" -> Some(CqParis)
          [] OTHER -> Some("v2")]

\* the arguments of a call: a state dict that carries only messages, only one
\* other key, no key at all (with a request_id), or every key
Calls ==
    {[state |-> [messages |-> Some(L)], request_id |-> None, user_id |-> "u1"] :
        L \in MsgLists(MaxMsgLen)}
    \cup UNION {{[state |-> (k :> Some(v)), request_id |-> None, user_id |-> "u1"] :
                    v \in ValuesOf(k)} : k \in JsonColumns \cup ScalarColumns}
    \cup {[state |-> <<>>, request_id |-> Some("r1"), user_id |-> "u1"],
          [state |-> FullState, request_id |-> Some("r2"), user_id |-> "u2"]}

NoCall == [state |-> <<>>, request_id |-> None, user_id |-> ""]

NoOp == [op |-> "none", thread_id |-> "", call |-> NoCall, existed |-> FALSE,
         before |-> None, result |-> None, repeat |-> FALSE, pending |-> None]

IdleSession == [pc |-> "idle", thread_id |-> "", call |-> NoCall,
                loaded |-> None, ts |-> 0]

StoreInit ==
    /\ agent_state = <<>>
    /\ now = 0
    /\ sess = [s \in Sessions |-> IdleSession]
    /\ upserted = {}
    /\ acked = [t \in Threads |-> {}]
    /\ lastOp = NoOp

\* no request is being served and none was
TurnIdle ==
    /\ chat_query = None
    /\ graph_state = <<>>
    /\ merged_state = <<>>
    /\ request = [message |-> <<>>, request_id |-> 0]
    /\ store_up = TRUE
    /\ pc = "idle"
    /\ steps = 0
    /\ response = None
    /\ ran = <<>>
    /\ ctx = None
    /\ searched = None
    /\ prev_step = ""
    /\ tasks = None
    /\ syncs = <<>>

\* the arguments of rank_merged_images
RankCall(user_embedding, merged_image_embeddings, beauty_standard_embedding) ==
    [user_embedding |-> user_embedding,
     merged_image_embeddings |-> merged_image_embeddings,
     beauty_standard_embedding |-> beauty_standard_embedding]

\* no call of rank_merged_images is made
RankIdle ==
    /\ rank_in = RankCall(UserEmbeddings(ZeroVector, <<0>>), <<>>, ZeroVector)
    /\ rank_out = None

\* no call of styling_agent is followed task by task
StyleIdle ==
    style = [state |-> <<>>, photo |-> "", outcomes |-> <<>>, task_pc |-> <<>>,
             results |-> <<>>, finished |-> <<>>, update |-> None]

Init ==
    /\ StoreInit
    /\ user = Profile(None)
    /\ TurnIdle
    /\ RankIdle
    /\ StyleIdle

CarriedSignatures(call) ==
    IF Get(call.state, "messages") = None THEN {}
    ELSE Signatures(SerializeMessages(call.state.messages[1]))

(* Sequential use: each call runs from its select to its commit alone *)

Upsert(t, call) ==
    /\ now < MaxNow
    /\ now' = now + 1
    /\ agent_state' = sync_agent_state_from_checkpoint(
                          agent_state, t, call.user_id, call.state,
                          call.request_id, now + 1)
    /\ upserted' = upserted \cup {t}
    /\ acked' = [acked EXCEPT ![t] = @ \cup CarriedSignatures(call)]
    /\ lastOp' = [op |-> "upsert", thread_id |-> t, call |-> call,
                  existed |-> SelectOne(agent_state, t) # None,
                  before |-> SelectOne(agent_state, t),
                  result |-> SelectOne(agent_state', t),
                  repeat |-> /\ lastOp.op = "upsert"
                             /\ lastOp.thread_id = t
                             /\ Get(call.state, "messages") # None
                             /\ Get(lastOp.call.state, "messages")
                                    = Get(call.state, "messages"),
                  pending |-> None]
    /\ UNCHANGED sess

\* the assignments after which a call can raise: none made, the scalar
\* columns assigned, the messages merged as well, all made (the commit raises)
AbortPoints == {0, 5, 6, Len(AssignOrder)}

\* a call that raises before its commit has completed
UpsertRaises(t, call) ==
    \E k \in AbortPoints :
        LET loaded == SelectOne(agent_state, t)
            pending ==
                IF loaded = None THEN None
                ELSE Some(PartialUpdate(
                              loaded[1],
                              UpdateExisting(loaded[1], call.user_id, call.state,
                                             call.request_id, now + 1),
                              k))
        IN  /\ agent_state' = IF loaded = None THEN agent_state
                              ELSE Rollback(agent_state, loaded[1], pending[1])
            /\ lastOp' = [NoOp EXCEPT !.op = "upsert_failed", !.thread_id = t,
                                      !.call = call,
                                      !.existed = loaded # None,
                                      !.before = loaded,
                                      !.result = SelectOne(agent_state', t),
                                      !.pending = pending]
            /\ UNCHANGED <<now, sess, upserted, acked>>

GetState(t) ==
    /\ lastOp' = [NoOp EXCEPT !.op = "get", !.thread_id = t,
                              !.before = SelectOne(agent_state, t),
                              !.result = get_agent_state(agent_state, t)]
    /\ UNCHANGED <<agent_state, now, sess, upserted, acked>>

Delete(t) ==
    /\ agent_state' = DeleteRows(agent_state, t)
    /\ upserted' = upserted \ {t}
    /\ acked' = [acked EXCEPT ![t] = {}]
    /\ lastOp' = [NoOp EXCEPT !.op = "delete", !.thread_id = t,
                              !.existed = SelectOne(agent_state, t) # None,
                              !.before = SelectOne(agent_state, t)]
    /\ UNCHANGED <<now, sess>>

StoreNext ==
    /\ \/ \E call \in Calls : Upsert("t1", call)
       \/ GetState("t1")
       \/ Delete("t1")
    /\ UNCHANGED <<turnVars, rankVars, style>>

SpecStore == Init /\ [][StoreNext]_vars

(* Sequential use with calls that raise *)

\* the calls that can raise: at most one message, or every key
AbortCalls ==
    {c \in Calls : \/ c.state = FullState
                   \/ Get(c.state, "messages") # None /\ Len(c.state.messages[1]) <= 1}

AbortNext ==
    /\ \/ \E call \in AbortCalls : Upsert("t1", call)
       \/ \E call \in AbortCalls : UpsertRaises("t1", call)
       \/ GetState("t1")
    /\ UNCHANGED <<turnVars, rankVars, style>>

SpecAbort == Init /\ [][AbortNext]_vars

(* Concurrent use: a call is a session that selects, then commits; other
   sessions run in between *)

\* the calls of the concurrent sessions: one message each
RaceCalls ==
    {c \in Calls : Get(c.state, "messages") # None /\ Len(c.state.messages[1]) <= 1}

UpsertSelect(s, t, call) ==
    /\ sess[s].pc = "idle"
    /\ now < MaxRaceNow
    /\ ~SelectRaises(agent_state, t)
    /\ now' = now + 1
    /\ sess' = [sess EXCEPT ![s] = [pc |-> "upsert", thread_id |-> t,
                                    call |-> call,
                                    loaded |-> SelectOne(agent_state, t),
                                    ts |-> now + 1]]
    /\ UNCHANGED <<agent_state, upserted, acked, lastOp>>

UpsertCommit(s) ==
    LET t == sess[s].thread_id
        call == sess[s].call
        fails == SyncFails(agent_state, sess[s].loaded, t)
    IN  /\ sess[s].pc = "upsert"
        /\ sess' = [sess EXCEPT ![s] = IdleSession]
        /\ agent_state' =
               IF fails THEN agent_state
               ELSE SyncCommit(agent_state, sess[s].loaded, t, call.user_id,
                               call.state, call.request_id, sess[s].ts)
        /\ upserted' = IF fails THEN upserted ELSE upserted \cup {t}
        /\ acked' = IF fails THEN acked
                    ELSE [acked EXCEPT ![t] = @ \cup CarriedSignatures(call)]
        /\ lastOp' = [NoOp EXCEPT !.op = IF fails THEN "upsert_failed" ELSE "upsert",
                                  !.thread_id = t, !.call = call,
                                  !.existed = sess[s].loaded # None,
                                  !.before = SelectOne(agent_state, t),
                                  !.result = SelectOne(agent_state', t)]
        /\ UNCHANGED now

DeleteSelect(s, t) ==
    /\ sess[s].pc = "idle"
    /\ ~SelectRaises(agent_state, t)
    /\ SelectOne(agent_state, t) # None
    /\ sess' = [sess EXCEPT ![s] = [IdleSession EXCEPT !.pc = "delete",
                                       !.thread_id = t,
                                       !.loaded = SelectOne(agent_state, t)]]
    /\ UNCHANGED <<agent_state, now, upserted, acked, lastOp>>

DeleteCommit(s) ==
    LET t == sess[s].thread_id
    IN  /\ sess[s].pc = "delete"
        /\ sess' = [sess EXCEPT ![s] = IdleSession]
        /\ agent_state' = DeleteRows(agent_state, t)
        /\ upserted' = upserted \ {t}
        /\ acked' = [acked EXCEPT ![t] = {}]
        /\ lastOp' = [NoOp EXCEPT !.op = "delete", !.thread_id = t,
                                  !.existed = TRUE,
                                  !.before = SelectOne(agent_state, t)]
        /\ UNCHANGED now

GetRow(s, t) ==
    /\ sess[s].pc = "idle"
    /\ GetState(t)

RaceNext ==
    /\ \/ \E s \in Sessions, t \in Threads, call \in RaceCalls : UpsertSelect(s, t, call)
       \/ \E s \in Sessions : UpsertCommit(s)
       \/ \E s \in Sessions, t \in Threads : DeleteSelect(s, t)
       \/ \E s \in Sessions : DeleteCommit(s)
       \/ \E s \in Sessions, t \in Threads : GetRow(s, t)
    /\ UNCHANGED <<turnVars, rankVars, style>>

SpecRace == Init /\ [][RaceNext]_vars

----------------------------------------------------------------------------
(* Properties of the store *)

\* the stored transcript of a row (None and [] are both the empty transcript)
Transcript(row) == IF row.messages = None THEN <<>> ELSE row.messages[1]

NoDuplicateSignature(msgs) ==
    \A i, j \in 1..Len(msgs) : i < j => Signature(msgs[i]) # Signature(msgs[j])

\* the elements of L at the positions idx, in the order of L
PickInOrder(L, idx) ==
    [k \in 1..Cardinality(idx) |->
        L[CHOOSE i \in idx : Cardinality({j \in idx : j < i}) = k - 1]]

\* the messages of L whose signature is neither in S nor earlier in L
NewMessages(S, L) ==
    PickInOrder(L, {i \in 1..Len(L) :
                      /\ Signature(L[i]) \notin Signatures(S)
                      /\ \A j \in 1..(i - 1) : Signature(L[j]) # Signature(L[i])})

\* C1: an upsert with messages L that directly follows an upsert of the same
\* thread with the same L leaves the stored transcript as the first one left it.
C1_UpsertTwiceAppendsNothing ==
    lastOp.repeat => Transcript(lastOp.result[1]) = Transcript(lastOp.before[1])

\* [m1, m2] upserted twice in a row: 2 messages stored
C1_Witness ==
    /\ lastOp.repeat
    /\ lastOp.call.state.messages = Some(<<MsgHumanA, MsgAiB>>)
    /\ Len(Transcript(lastOp.result[1])) = 2

\* C2: an upsert on an existing row leaves unchanged every column whose value
\* in the state dict (or the request_id argument) is absent or None.
C2_AbsentFieldsUntouched ==
    (lastOp.op = "upsert" /\ lastOp.existed) =>
        /\ \A c \in StateKeys :
              Get(lastOp.call.state, c) = None =>
                  lastOp.result[1][c] = lastOp.before[1][c]
        /\ lastOp.call.request_id = None =>
              lastOp.result[1].request_id = lastOp.before[1].request_id

\* C3: an upsert with messages L on a row whose transcript is S stores S
\* followed by the messages of L whose signature was not yet present, in the
\* order of L.
C3_TranscriptIsAppendOnly ==
    (lastOp.op = "upsert" /\ lastOp.existed
        /\ Get(lastOp.call.state, "messages") # None) =>
        Transcript(lastOp.result[1]) =
            Transcript(lastOp.before[1])
                \o NewMessages(Transcript(lastOp.before[1]),
                               SerializeMessages(lastOp.call.state.messages[1]))

\* a stored transcript grows by one of two incoming messages, the other one
\* being a variant of a stored message
C3_Witness ==
    /\ lastOp.op = "upsert" /\ lastOp.existed
    /\ Transcript(lastOp.before[1]) = <<MsgHumanA>>
    /\ lastOp.call.state = [messages |-> Some(<<MsgUserA, MsgAiB>>)]
    /\ Transcript(lastOp.result[1]) = <<MsgHumanA, MsgAiB>>

\* C4: once the concurrent upserts of a thread have committed, its transcript
\* holds every message carried by a committed upsert, each signature once.
C4_RaceKeepsEveryMessage ==
    \A t \in Threads :
        ((\A s \in Sessions : sess[s].pc = "idle" \/ sess[s].thread_id # t)
            /\ RowsOf(agent_state, t) # {}) =>
            /\ acked[t] \subseteq Signatures(Transcript(SelectOne(agent_state, t)[1]))
            /\ NoDuplicateSignature(Transcript(SelectOne(agent_state, t)[1]))

C6_ChatQuerySubFieldUpsert ==
    (lastOp.op = "upsert" /\ lastOp.existed
        /\ Get(lastOp.call.state, "chat_query_json") # None
        /\ lastOp.before[1].chat_query_json # None) =>
        \A f \in {"destination", "occasion"} :
            lastOp.result[1].chat_query_json[1][f] =
                IF lastOp.call.state.chat_query_json[1][f] = None
                THEN lastOp.before[1].chat_query_json[1][f]
                ELSE lastOp.call.state.chat_query_json[1][f]

\* C19: after an upsert that raised before its commit had completed, the row
\* of the thread is what it was before the call, and get returns it.
C19_FailedUpsertLeavesRow ==
    lastOp.op = "upsert_failed" =>
        /\ lastOp.result = lastOp.before
        /\ SelectOne(agent_state, lastOp.thread_id) = lastOp.before
        /\ get_agent_state(agent_state, lastOp.thread_id) = lastOp.before

\* the call raised after it had merged a new message into the loaded row and
\* before it had set updated_at
C19_Witness ==
    /\ lastOp.op = "upsert_failed" /\ lastOp.existed
    /\ lastOp.pending # None
    /\ Len(Transcript(lastOp.pending[1])) > Len(Transcript(lastOp.before[1]))
    /\ lastOp.pending[1].updated_at = lastOp.before[1].updated_at
    /\ SelectOne(agent_state, lastOp.thread_id) = lastOp.before

\* C7: no stored transcript holds two messages of the same signature.
C7_NoDuplicateStored ==
    \A i \in 1..Len(agent_state) : NoDuplicateSignature(Transcript(agent_state[i]))

----------------------------------------------------------------------------
(* The chat turn: one request at a time on one thread *)

TurnInit ==
    /\ StoreInit
    /\ user \in Profiles
    /\ TurnIdle
    /\ RankIdle
    /\ StyleIdle

\* an upsert chat() issues: the stage it follows and the messages it carries,
\* None when the state dict has no messages key
SyncCall(stage, state) == [stage |-> stage, messages |-> Get(state, "messages")]

\* the loop body of chat() for the update one node has streamed: merge, sync
\* without the messages, then either the early return (store the messages,
\* respond) or on to the node the graph runs next
StageDone(agent_name, update, next_node) ==
    LET state_update == ChannelWrites(update)
        state == AfterAgent(merged_state, state_update)
        request_id == Some(request.request_id)
        synced ==
            IF store_up
            THEN sync_agent_state_from_checkpoint(
                     agent_state, ChatThread, ChatUser, WithoutMessages(state),
                     request_id, now + 1)
            ELSE agent_state
        ts == IF store_up THEN now + 1 ELSE now
        early == WithMessages(state, EarlyMessages(state["messages"][1],
                                                   request.message))
    IN  /\ graph_state' = ApplyUpdate(graph_state, state_update)
        /\ merged_state' = state
        /\ steps' = steps + 1
        /\ ran' = Append(ran, agent_name)
        /\ IF EarlyReturn(state, agent_name)
           THEN /\ agent_state' =
                       IF store_up
                       THEN sync_agent_state_from_checkpoint(
                                synced, ChatThread, ChatUser, early,
                                request_id, ts + 1)
                       ELSE synced
                /\ syncs' = syncs \o <<SyncCall(agent_name, WithoutMessages(state)),
                                       SyncCall(agent_name, early)>>
                /\ now' = IF store_up THEN ts + 1 ELSE ts
                /\ response' = Some(EarlyResponse(state))
                /\ pc' = "idle"
           ELSE /\ agent_state' = synced
                /\ syncs' = Append(syncs, SyncCall(agent_name, WithoutMessages(state)))
                /\ now' = ts
                /\ response' = response
                /\ pc' = next_node

\* chat() up to the first node: load or create the row, build the input.  A
\* store that is down makes get_agent_state raise, which ends the request in
\* the outer except; a store that answers here may stop answering (up) before
\* the first stage has run.
StartTurn(message) ==
    /\ pc = "idle"
    /\ steps + Len(PipelineStages) + 2 <= MaxSteps
    /\ prev_step' = IF ctx = None THEN "" ELSE ctx[1].next_step
    /\ ran' = <<>>
    /\ ctx' = None
    /\ searched' = None
    /\ tasks' = None
    /\ \/ /\ response' = Some(ErrorResponse)
          /\ store_up' = FALSE
          /\ syncs' = <<>>
          /\ UNCHANGED <<agent_state, now, user, chat_query, graph_state,
                         merged_state, request, pc, steps>>
       \/ \E up \in BOOLEAN :
            LET existing_agent_state == get_agent_state(agent_state, ChatThread)
                created ==
                    IF existing_agent_state = None
                    THEN sync_agent_state_from_checkpoint(
                             agent_state, ChatThread, ChatUser, InitialState,
                             None, now + 1)
                    ELSE agent_state
                existing_state_record == get_agent_state(created, ChatThread)
                existing_messages ==
                    IF existing_state_record # None
                           /\ Truthy(existing_state_record[1].messages)
                    THEN DeserializeMessages(existing_state_record[1].messages[1])
                    ELSE <<>>
                all_messages == Append(existing_messages, HumanMessage(message))
                request_id == request.request_id + 1
                input_data == [messages |-> Some(all_messages),
                               request_id |-> Some(request_id),
                               user_profile |-> Some(user)]
            IN  /\ agent_state' = created
                /\ now' = IF existing_agent_state = None THEN now + 1 ELSE now
                /\ request' = [message |-> message, request_id |-> request_id]
                /\ store_up' = up
                /\ syncs' = IF existing_agent_state = None
                            THEN <<SyncCall("start", InitialState)>> ELSE <<>>
                /\ graph_state' = ApplyUpdate(graph_state, input_data)
                /\ merged_state' = [messages |-> Some(all_messages),
                                    user_profile |-> Some(user),
                                    thread_id |-> Some(ChatThread),
                                    request_id |-> Some(request_id)]
                /\ pc' = "context_agent"
                /\ response' = None
                /\ steps' = steps + 1
                /\ UNCHANGED <<user, chat_query>>

\* context_agent and the loop body for its update
ContextStage ==
    /\ pc = "context_agent"
    /\ \/ /\ ctx' = Some([query |-> <<>>, saved |-> FALSE, next_step |-> "raised",
                          text |-> <<>>, record |-> None])
          /\ response' = Some(ErrorResponse)
          /\ pc' = "idle"
          /\ steps' = steps + 1
          /\ ran' = Append(ran, "context_agent")
          /\ UNCHANGED <<agent_state, now, chat_query, graph_state, merged_state,
                         syncs>>
       \/ \E extracted_data \in Extractions, read_ok \in BOOLEAN,
             save_ok \in BOOLEAN, llm_step \in LlmSteps :
            LET result == IF read_ok THEN chat_query ELSE None
                new_chat_query == NewChatQuery(extracted_data, result)
                update == IF save_ok
                          THEN WithChatQuery(RoutedUpdate(new_chat_query),
                                             new_chat_query)
                          ELSE LlmUpdate(llm_step)
            IN  /\ chat_query' = IF save_ok THEN Some(new_chat_query) ELSE chat_query
                /\ ctx' = Some([query |-> extracted_data.query,
                                saved |-> save_ok,
                                next_step |-> update.next_step[1],
                                text |-> update.messages[1][1].content,
                                record |-> IF save_ok THEN Some(new_chat_query)
                                           ELSE None])
                /\ StageDone("context_agent", update,
                             router(ApplyUpdate(graph_state, update)))
    /\ UNCHANGED <<user, request, store_up, searched, prev_step, tasks>>

\* research_agent and the loop body for its update
ResearchStage ==
    /\ pc = "research_agent"
    /\ \E n \in 0..MaxResults :
         LET chat_query_json == Get(graph_state, "chat_query_json")
         IN  /\ searched' = IF chat_query_json = None THEN None ELSE Some(n)
             /\ StageDone("research_agent",
                          ResearchUpdate(chat_query_json, SubSeq(ProductPool, 1, n)),
                          "styling_agent")
    /\ UNCHANGED <<user, chat_query, request, store_up, ctx, prev_step, tasks>>

\* styling_agent and the loop body for its update
StylingStage ==
    /\ pc = "styling_agent"
    /\ LET search_results == Get(graph_state, "search_results")
           selected == IF Truthy(search_results)
                       THEN Min({StyleLimit, Len(search_results[1])}) ELSE 0
           photo_urls == graph_state["user_profile"][1].photo_urls
       IN  \E i \in 1..Len(photo_urls) :
             \E outcomes \in [1..selected -> TaskOutcomes] :
               /\ tasks' = Some(outcomes)
               /\ StageDone("styling_agent",
                            StylingUpdate(graph_state, request.request_id,
                                          photo_urls[i],
                                          [k \in 1..selected |->
                                              process_product(outcomes[k])]),
                            "ranking_agent")
    /\ UNCHANGED <<user, chat_query, request, store_up, ctx, searched, prev_step>>

\* ranking_agent and the loop body for its update; an exception of the node
\* leaves astream and ends the request in the outer except
RankingStage ==
    /\ pc = "ranking_agent"
    /\ \/ /\ RankingRaises(graph_state)
          /\ response' = Some(ErrorResponse)
          /\ pc' = "idle"
          /\ steps' = steps + 1
          /\ ran' = Append(ran, "ranking_agent")
          /\ UNCHANGED <<agent_state, now, graph_state, merged_state, syncs>>
       \/ /\ ~RankingRaises(graph_state)
          /\ StageDone("ranking_agent", ranking_agent(graph_state), "finish")
    /\ UNCHANGED <<user, chat_query, request, store_up, ctx, searched, prev_step,
                   tasks>>

\* chat() after the stream has ended: store the messages, respond
Finish ==
    /\ pc = "finish"
    /\ LET final_result == merged_state
           messages == Get(final_result, "messages")
       IN  /\ agent_state' =
                  IF store_up /\ Truthy(messages)
                  THEN sync_agent_state_from_checkpoint(
                           agent_state, ChatThread, ChatUser,
                           WithMessages(final_result,
                                        FinalMessages(messages[1], request.message)),
                           Some(request.request_id), now + 1)
                  ELSE agent_state
           /\ now' = IF store_up /\ Truthy(messages) THEN now + 1 ELSE now
           /\ syncs' =
                  IF Truthy(messages)
                  THEN Append(syncs,
                              SyncCall("finish",
                                       WithMessages(final_result,
                                           FinalMessages(messages[1],
                                                         request.message))))
                  ELSE syncs
           /\ response' = Some(FinalResponse(final_result))
    /\ pc' = "idle"
    /\ steps' = steps + 1
    /\ UNCHANGED <<user, chat_query, graph_state, merged_state, request,
                   store_up, ran, ctx, searched, prev_step, tasks>>

TurnNext ==
    /\ \/ \E message \in UserTexts : StartTurn(message)
       \/ ContextStage
       \/ ResearchStage
       \/ StylingStage
       \/ RankingStage
       \/ Finish
    /\ UNCHANGED <<sess, upserted, acked, lastOp, rank_in, rank_out, style>>

SpecTurn == TurnInit /\ [][TurnNext]_vars

\* a step of the request being served: the stage that is next, or the end of
\* chat()
TurnStep ==
    /\ \/ ContextStage
       \/ ResearchStage
       \/ StylingStage
       \/ RankingStage
       \/ Finish
    /\ UNCHANGED <<sess, upserted, acked, lastOp, rank_in, rank_out, style>>

\* the positions at which a step of the request is enabled: a node of the
\* pipeline is about to run, or the stream has ended
ActivePositions == {PipelineStages[i] : i \in 1..Len(PipelineStages)} \cup {"finish"}

\* every call a stage or chat() awaits returns or raises, so the step of the
\* request that is enabled is taken: weak fairness of TurnStep, written with
\* the positions at which it is enabled
SpecTurnLive ==
    SpecTurn /\ ([]<>(pc \notin ActivePositions) \/ []<><<TurnStep>>_vars)

----------------------------------------------------------------------------
(* rank_merged_images and ranking_agent, called on their own *)

\* candidate embeddings: unit vectors and the zero vector
RankVectors == {<<1, 0>>, <<0, 1>>, <<-1, 0>>, ZeroVector}

\* UserEmbedding values: any vector per field, a color embedding of either
\* length; and the ones generate_user_embeddings builds
RankUsers ==
    {[style_embedding |-> <<1, 0>>, brand_embedding |-> b,
      color_embedding |-> c, intent_embedding |-> i] :
        b \in {<<1, 0>>, <<0, 1>>}, c \in ColorPool \cup {<<0, 1>>},
        i \in {<<0, 1>>, ZeroVector}}
        \cup {UserEmbeddings(<<1, 0>>, c) : c \in ColorPool}

\* the state ranking_agent is given for a list of candidate embeddings
RankState(call) ==
    [styled_products |->
         Some([i \in 1..Len(call.merged_image_embeddings) |->
                  StyledProduct(0, i, ProductPool[i],
                                call.merged_image_embeddings[i], "photo1")]),
     user_profile |-> Some(Profile(Some(call.user_embedding)))]

RankInit ==
    /\ StoreInit
    /\ user = Profile(None)
    /\ TurnIdle
    /\ StyleIdle
    /\ rank_out = None
    /\ \E n \in 0..MaxRank :
         rank_in \in {RankCall(u, embs, b) :
                         u \in RankUsers, embs \in [1..n -> RankVectors],
                         b \in {ZeroVector, <<0, 1>>}}

\* the call returns: the indices, and the update of ranking_agent when it
\* returns as well
RankReturns ==
    /\ rank_out = None
    /\ ~RankRaises(rank_in.user_embedding, rank_in.merged_image_embeddings,
                   rank_in.beauty_standard_embedding)
    /\ rank_out' =
           Some([raised |-> FALSE,
                 ranked_indices |->
                     rank_merged_images(rank_in.user_embedding,
                                        rank_in.merged_image_embeddings,
                                        rank_in.beauty_standard_embedding),
                 scores |->
                     [i \in 1..Len(rank_in.merged_image_embeddings) |->
                         FinalScore(rank_in.user_embedding,
                                    rank_in.merged_image_embeddings[i],
                                    rank_in.beauty_standard_embedding)],
                 update |-> IF RankingRaises(RankState(rank_in)) THEN None
                            ELSE Some(ranking_agent(RankState(rank_in)))])
    /\ UNCHANGED rank_in

\* the call raises the ValueError of np.dot
RankFails ==
    /\ rank_out = None
    /\ RankRaises(rank_in.user_embedding, rank_in.merged_image_embeddings,
                  rank_in.beauty_standard_embedding)
    /\ rank_out' = Some([raised |-> TRUE, ranked_indices |-> <<>>, scores |-> <<>>,
                          update |-> None])
    /\ UNCHANGED rank_in

RankNext ==
    /\ \/ RankReturns
       \/ RankFails
    /\ UNCHANGED <<storeVars, turnVars, style>>

SpecRank == RankInit /\ [][RankNext]_vars

----------------------------------------------------------------------------
(* styling_agent, task by task: the process_product coroutines run under
   asyncio.gather and interleave at their awaits *)

\* the awaits of process_product, in order
TaskAwaits == <<"merge_images", "get_image_embedding", "create_product_embedding">>

StyleInit ==
    /\ StoreInit
    /\ user = Profile(None)
    /\ TurnIdle
    /\ RankIdle
    /\ \E n \in 0..MaxResults, i \in 1..Len(Profile(None).photo_urls) :
         LET search_results == SubSeq(ProductPool, 1, n)
             launched == Len(SelectProducts(search_results))
         IN  \E outcomes \in [1..launched -> TaskOutcomes] :
               style = [state |-> [search_results |-> Some(search_results),
                                   user_profile |-> Some(Profile(None))],
                        photo |-> Profile(None).photo_urls[i],
                        outcomes |-> outcomes,
                        task_pc |-> [k \in 1..launched |-> TaskAwaits[1]],
                        results |-> [k \in 1..launched |-> None],
                        finished |-> <<>>,
                        update |-> None]

\* task k leaves process_product, by its return or by its except branch
TaskReturns(k) ==
    style' = [style EXCEPT !.task_pc[k] = "done",
                           !.results[k] = process_product(style.outcomes[k]),
                           !.finished = Append(@, k)]

\* await image_merging_service.merge_images(...) of task k is over
TaskMerge(k) ==
    /\ style.task_pc[k] = "merge_images"
    /\ IF style.outcomes[k].merge = "raises"
       THEN TaskReturns(k)
       ELSE style' = [style EXCEPT !.task_pc[k] = "get_image_embedding"]

\* await embedding_service.get_image_embedding(merged_image) of task k is over
TaskEmbed(k) ==
    /\ style.task_pc[k] = "get_image_embedding"
    /\ IF get_image_embedding(style.outcomes[k]) = None
       THEN TaskReturns(k)
       ELSE style' = [style EXCEPT !.task_pc[k] = "create_product_embedding"]

\* await create_product_embedding(...) of task k is over (its failure is
\* logged), the task returns product_with_embedding
TaskStore(k) ==
    /\ style.task_pc[k] = "create_product_embedding"
    /\ TaskReturns(k)

\* Mutant: the results come in the order the tasks finished
GatherAsCompleted(results, finished) ==
    [i \in 1..Len(finished) |-> results[finished[i]]]

\* asyncio.gather(*tasks, return_exceptions=True): the results in the order
\* of the tasks given, whatever the order they finished in
Gather(results, finished) == results

\* every task is done: gather returns, styling_agent filters and returns
StyleReturns ==
    /\ style.update = None
    /\ \A k \in 1..Len(style.task_pc) : style.task_pc[k] = "done"
    /\ style' = [style EXCEPT !.update =
                     Some(StylingUpdate(style.state, 0, style.photo,
                                        Gather(style.results, style.finished)))]

StyleNext ==
    /\ \/ \E k \in 1..Len(style.task_pc) : TaskMerge(k)
       \/ \E k \in 1..Len(style.task_pc) : TaskEmbed(k)
       \/ \E k \in 1..Len(style.task_pc) : TaskStore(k)
       \/ StyleReturns
    /\ UNCHANGED <<storeVars, turnVars, rankVars>>

SpecStyle == StyleInit /\ [][StyleNext]_vars

----------------------------------------------------------------------------
(* Properties of the chat turn *)

\* the row of the chat thread
ChatRow == SelectOne(agent_state, ChatThread)

\* the request has been answered
Answered == pc = "idle" /\ response # None /\ ran # <<>>

\* C8: a request whose context stage chose clarification is answered with the
\* clarification question after the context stage alone; with the store
\* answering, the row then holds the question, next_step clarification_agent
\* and the request's id; and the request that follows a clarification runs the
\* context stage first.
C8_ClarificationEndsTheTurn ==
    /\ (Answered /\ ctx # None /\ ctx[1].next_step = "clarification_agent") =>
          /\ response[1].status = 200
          /\ response[1].response = ctx[1].text
          /\ ran = <<"context_agent">>
          /\ store_up =>
                /\ ChatRow # None
                /\ ChatRow[1].next_step = Some("clarification_agent")
                /\ ChatRow[1].request_id = Some(request.request_id)
                /\ Signature([type |-> StrAi, content |-> ctx[1].text])
                       \in Signatures(Transcript(ChatRow[1]))
    /\ (prev_step = "clarification_agent" /\ ran # <<>>) => ran[1] = "context_agent"

C8_Witness ==
    /\ Answered
    /\ store_up
    /\ prev_step = "clarification_agent"
    /\ ctx # None
    /\ ctx[1].next_step = "clarification_agent"
    /\ response[1].response = ClarifyText(<<"destination", "product type">>)

\* C9: the context stage routes to clarification exactly when the query of the
\* extracted record is empty or whitespace, and to research otherwise.
C9_RoutesOnQuery ==
    (ctx # None /\ ctx[1].next_step # "raised") =>
        IF Strip(ctx[1].query) = <<>>
        THEN ctx[1].next_step = "clarification_agent"
        ELSE ctx[1].next_step = "research_agent"

LastRan == ran[Len(ran)]

\* the products the styling stage selected, and what it handed on
SelectedProducts == SubSeq(graph_state["search_results"][1], 1, Len(tasks[1]))
StyledProducts == graph_state["styled_products"][1]

WeightedScore(user_embedding, img_vec, beauty_standard_embedding) ==
    40 * compute_cosine_similarity(user_embedding.style_embedding, img_vec)
    + 20 * compute_cosine_similarity(user_embedding.brand_embedding, img_vec)
    + 20 * compute_cosine_similarity(user_embedding.color_embedding, img_vec)
    + 10 * compute_cosine_similarity(user_embedding.intent_embedding, img_vec)
    + 10 * compute_cosine_similarity(beauty_standard_embedding, img_vec)

\* the call of rank_merged_images has returned
RankReturned == rank_out # None /\ ~rank_out[1].raised

\* the combined score of the candidate of index i (from 0) of the call
RankScore(i) ==
    WeightedScore(rank_in.user_embedding, rank_in.merged_image_embeddings[i + 1],
                  rank_in.beauty_standard_embedding)

\* C13: a call of rank_merged_images on n candidates that returns gives every
\* index of 0..n-1 once, in non-increasing order of the combined score of the
\* weights 0.40, 0.20, 0.20, 0.10, 0.10; ranked_products of ranking_agent holds
\* every styled product once, in non-increasing score, and is styled_products
\* picked by those indices.
C13_RankIsSortedPermutation ==
    RankReturned =>
        LET idx == rank_out[1].ranked_indices
            n == Len(rank_in.merged_image_embeddings)
            styled == RankState(rank_in).styled_products[1]
            ranked == rank_out[1].update[1].ranked_products[1]
            score(p) == WeightedScore(rank_in.user_embedding, p.embedding,
                                      BeautyStandard)
        IN  /\ Len(idx) = n
            /\ \A i \in 0..(n - 1) : Cardinality({k \in 1..n : idx[k] = i}) = 1
            /\ \A k \in 1..(n - 1) : RankScore(idx[k]) >= RankScore(idx[k + 1])
            /\ rank_out[1].update # None
            /\ Len(ranked) = n
            /\ \A i \in 1..n : Cardinality({k \in 1..n : ranked[k] = styled[i]}) = 1
            /\ \A k \in 1..(n - 1) : score(ranked[k]) >= score(ranked[k + 1])
            /\ rank_in.beauty_standard_embedding = BeautyStandard =>
                   \A k \in 1..n : ranked[k] = styled[idx[k] + 1]

\* three candidates of three scores, the last one the best
C13_Witness ==
    /\ RankReturned
    /\ rank_out[1].ranked_indices = <<2, 0, 1>>
    /\ RankScore(2) > RankScore(0) /\ RankScore(0) > RankScore(1)
    /\ rank_out[1].update[1].ranked_products[1][1].product = "p3"

\* C14: in what rank_merged_images returns, of two candidates of equal combined
\* score the one earlier in the input comes first.
C14_RankIsStable ==
    RankReturned =>
        LET idx == rank_out[1].ranked_indices
        IN  \A k, l \in 1..Len(idx) :
                (k < l /\ RankScore(idx[k]) = RankScore(idx[l])) => idx[k] < idx[l]

\* the first and the last candidate tie below the middle one
C14_Witness ==
    /\ RankReturned
    /\ rank_out[1].ranked_indices = <<1, 0, 2>>
    /\ RankScore(0) = RankScore(2)
    /\ RankScore(1) > RankScore(0)
    /\ rank_in.merged_image_embeddings[1] # rank_in.merged_image_embeddings[3]

\* the cosine of two vectors of one length, neither of norm 0
Cosine(vec_a, vec_b) == Dot(vec_a, vec_b) \div (Norm(vec_a) * Norm(vec_b))

\* what a facet of weight w adds to the score of a candidate when a vector of
\* norm 0 adds nothing
FacetTerm(w, facet, img_vec) ==
    IF Norm(facet) = 0 \/ Norm(img_vec) = 0 THEN 0 ELSE w * Cosine(facet, img_vec)

\* C23: in a call of rank_merged_images that returns, the similarity of a
\* vector of norm 0 and any vector is 0, so the score of each candidate is the
\* weighted sum over the facets and the reference vector that are not zero,
\* and the score of a candidate whose embedding is the zero vector is 0.
C23_ZeroVectorContributesNothing ==
    RankReturned =>
        LET u == rank_in.user_embedding
            b == rank_in.beauty_standard_embedding
            embs == rank_in.merged_image_embeddings
            facets == {u.style_embedding, u.brand_embedding, u.color_embedding,
                       u.intent_embedding, b}
        IN  \A i \in 1..Len(embs) :
                /\ \A f \in facets :
                       (Norm(f) = 0 \/ Norm(embs[i]) = 0) =>
                           /\ compute_cosine_similarity(f, embs[i]) = 0
                           /\ compute_cosine_similarity(embs[i], f) = 0
                /\ rank_out[1].scores[i] =
                       FacetTerm(40, u.style_embedding, embs[i])
                       + FacetTerm(20, u.brand_embedding, embs[i])
                       + FacetTerm(20, u.color_embedding, embs[i])
                       + FacetTerm(10, u.intent_embedding, embs[i])
                       + FacetTerm(10, b, embs[i])
                /\ Norm(embs[i]) = 0 => rank_out[1].scores[i] = 0

\* a profile whose color and intent facets are zero vectors and a zero
\* reference vector: the zero candidate scores 0, the other one the style and
\* brand weights alone
C23_Witness ==
    /\ RankReturned
    /\ rank_in.user_embedding.color_embedding = <<0>>
    /\ rank_in.user_embedding.intent_embedding = ZeroVector
    /\ rank_in.beauty_standard_embedding = ZeroVector
    /\ rank_in.merged_image_embeddings = <<ZeroVector, <<1, 0>> >>
    /\ rank_out[1].scores = <<0, 60>>
    /\ rank_out[1].ranked_indices = <<1, 0>>

StageRaised ==
    \/ ctx # None /\ ctx[1].next_step = "raised"
    \/ ran # <<>> /\ LastRan = "ranking_agent" /\ RankingRaises(graph_state)

\* C16: a request served while the store does not answer, none of whose
\* stages raised, is answered 200.
C16_StoreDownStillAnswers ==
    (pc = "idle" /\ response # None /\ ~store_up /\ ~StageRaised) =>
        response[1].status = 200

\* C17: a request whose context stage saw the extraction call raise is
\* answered 200 with a clarification question.
C17_ExtractionFailureAsksToClarify ==
    (pc = "idle" /\ ctx # None /\ ctx[1].next_step = "raised") =>
        /\ response[1].status = 200
        /\ \E fields \in {MissingFields(NewChatQuery(e, None)) : e \in Extractions} :
              response[1].response = ClarifyText(fields)

C20_TranscriptWrittenOnce ==
    (Answered /\ response[1].status = 200) =>
        LET issued == SelectSeq(syncs, LAMBDA c : c.stage # "start")
            n == Len(issued)
        IN  /\ n = Len(ran) + 1
            /\ \A i \in 1..Len(ran) :
                   issued[i].stage = ran[i] /\ issued[i].messages = None
            /\ issued[n].messages # None
            /\ LET written == issued[n].messages[1]
               IN  /\ written # <<>>
                   /\ written[Len(written)].content = response[1].response

\* a request that ran the four stages: four upserts without messages, then
\* the one with the transcript
C20_Witness ==
    /\ Answered /\ response[1].status = 200
    /\ ran = PipelineStages
    /\ Len(syncs) = 6
    /\ syncs[1].stage = "start"
    /\ syncs[6].stage = "finish"
    /\ syncs[6].messages[1] = <<HumanMessage(request.message),
                                AIMessage(response[1].response)>>

\* the stage ran for the request and returned its update
Completed(stage) ==
    /\ \E i \in 1..Len(ran) : ran[i] = stage
    /\ ~(LastRan = stage /\ StageRaised)

\* C21: while the store answers, once a stage of the request has completed
\* the row holds the fields produced up to it: chat_query_json after context
\* (when it saved a record), search_results after research, styled_products
\* and merged_images after styling, ranked_products after ranking.
C21_StageFieldsSynced ==
    (store_up /\ ran # <<>>) =>
        /\ (Completed("context_agent") /\ ctx[1].saved) =>
               ChatRow[1].chat_query_json = ctx[1].record
        /\ Completed("research_agent") =>
               /\ ChatRow[1].search_results # None
               /\ ChatRow[1].search_results = Get(graph_state, "search_results")
        /\ Completed("styling_agent") =>
               /\ ChatRow[1].styled_products # None
               /\ ChatRow[1].styled_products = Get(graph_state, "styled_products")
               /\ ChatRow[1].merged_images # None
        /\ Completed("ranking_agent") =>
               /\ ChatRow[1].ranked_products # None
               /\ ChatRow[1].ranked_products = Get(graph_state, "ranked_products")

\* C22: after the first request of a thread, if it ended in clarification
\* while the store answered, the stored transcript is the user's message
\* followed by the clarification question, 2 messages.
C22_ClarificationStoresTwoMessages ==
    (Answered /\ store_up /\ request.request_id = 1
        /\ ctx # None /\ ctx[1].next_step = "clarification_agent") =>
        Transcript(ChatRow[1]) =
            <<[type |-> StrHuman, content |-> request.message],
              [type |-> StrAi, content |-> ctx[1].text]>>

\* the call of styling_agent has returned, having had products to select from
StyleReturned == style.update # None /\ Truthy(style.state.search_results)

\* the positions of the tasks whose merge and whose model load did not raise
Succeeded ==
    {k \in 1..Len(style.outcomes) :
        /\ style.outcomes[k].merge = "ok"
        /\ style.outcomes[k].embedding # "load_raises"}

\* C24: when styling_agent returns, every task it launched has finished,
\* whatever the others did and in whatever order; styled_products holds the
\* products of the tasks that succeeded, in the order of the selected products,
\* and merged_images their merged image URLs in that order.
C24_FailedTaskLeavesOthers ==
    StyleReturned =>
        LET search_results == style.state.search_results[1]
            launched == Len(style.outcomes)
            styled == style.update[1].styled_products[1]
        IN  /\ Len(style.finished) = launched
            /\ \A k \in 1..launched :
                   Cardinality({i \in 1..launched : style.finished[i] = k}) = 1
            /\ Len(styled) = Cardinality(Succeeded)
            /\ [j \in 1..Len(styled) |-> styled[j].product]
                   = PickInOrder(search_results, Succeeded)
            /\ [j \in 1..Len(styled) |-> styled[j].merged_image_url]
                   = PickInOrder([k \in 1..launched |-> <<"merged", 0, k>>], Succeeded)
            /\ style.update[1].merged_images
                   = Some([j \in 1..Len(styled) |-> styled[j].merged_image_url])

\* the second task finished first, the first task failed after it: the second
\* product alone is styled
C24_Witness ==
    /\ StyleReturned
    /\ style.finished = <<2, 1>>
    /\ style.outcomes[1].merge = "ok" /\ style.outcomes[1].embedding = "load_raises"
    /\ style.outcomes[2].embedding = "ok"
    /\ Len(style.update[1].styled_products[1]) = 1
    /\ style.update[1].styled_products[1][1].product = "p2"
    /\ style.update[1].merged_images = Some(<< <<"merged", 0, 2>> >>)

\* C25: styling_agent launches a task for each of the first 2 search results
\* and for no other, all with the one photo it chose among the profile's
\* photos; styled_products has at most min(2, number of search results)
\* entries, each of them with that photo.
C25_TwoCandidatesOnePhoto ==
    /\ style.outcomes # <<>> =>
           /\ Len(style.outcomes) <= 2
           /\ Len(style.outcomes) <= Len(style.state.search_results[1])
           /\ \E i \in 1..Len(style.state.user_profile[1].photo_urls) :
                  style.photo = style.state.user_profile[1].photo_urls[i]
    /\ StyleReturned =>
           LET search_results == style.state.search_results[1]
               styled == style.update[1].styled_products[1]
           IN  /\ Len(styled) <= Min({2, Len(search_results)})
               /\ \A j \in 1..Len(styled) :
                      /\ styled[j].user_photo_url = style.photo
                      /\ styled[j].product \in {search_results[k] :
                                                   k \in 1..Min({2, Len(search_results)})}

\* three search results: two tasks, two styled products, both with the
\* second photo
C25_Witness ==
    /\ StyleReturned
    /\ Len(style.state.search_results[1]) = 3
    /\ Len(style.outcomes) = 2
    /\ style.photo = "photo2"
    /\ Len(style.update[1].styled_products[1]) = 2
    /\ \A j \in 1..2 : style.update[1].styled_products[1][j].user_photo_url = "photo2"

\* C26: when the context stage of a request is about to run on a thread whose
\* previous request ended in clarification and left a transcript in the row,
\* the messages of the state it is given are the stored transcript, each
\* message with its role and content, followed by the new user message.
C26_ContextGetsTranscriptPlusMessage ==
    (pc = "context_agent" /\ prev_step = "clarification_agent"
        /\ Len(Transcript(ChatRow[1])) = 2) =>
        graph_state["messages"] =
            Some(Append(DeserializeMessages(Transcript(ChatRow[1])),
                        HumanMessage(request.message)))

\* C27: after a request answered 200 while the store answered, whose text
\* does not occur in the answer, the stored transcript ends with the request's
\* user message directly followed by the answer.
C27_TranscriptEndsWithTheTurn ==
    (Answered /\ response[1].status = 200 /\ store_up
        /\ ~Contains(response[1].response, request.message)) =>
        LET stored == Transcript(ChatRow[1])
            n == Len(stored)
        IN  /\ n >= 2
            /\ stored[n - 1] = [type |-> StrHuman, content |-> request.message]
            /\ stored[n] = [type |-> StrAi, content |-> response[1].response]

GeneratedProfile(user_embedding) ==
    /\ Len(user_embedding.style_embedding) = Len(ZeroVector)
    /\ user_embedding.brand_embedding = user_embedding.style_embedding
    /\ user_embedding.intent_embedding = user_embedding.style_embedding
    /\ Len(user_embedding.color_embedding) = 1

\* C29: a call of rank_merged_images on a profile built by
\* generate_user_embeddings and candidates whose embeddings have the length of
\* an image embedding does not raise: it returns a score for every candidate.
C29_RankNeverRaises ==
    (rank_out # None /\ GeneratedProfile(rank_in.user_embedding)
        /\ \A i \in 1..Len(rank_in.merged_image_embeddings) :
               Len(rank_in.merged_image_embeddings[i]) = Len(ZeroVector)) =>
        /\ ~rank_out[1].raised
        /\ Len(rank_out[1].scores) = Len(rank_in.merged_image_embeddings)

\* the position of a stage in the pipeline
StagePosition(stage) == CHOOSE i \in 1..Len(PipelineStages) : PipelineStages[i] = stage

\* the stages run for the request are stages of the pipeline, each at most
\* once and in the pipeline's order, and the context stage alone when it
\* decided for clarification
StagesInOrder ==
    /\ \A i \in 1..Len(ran) : \E k \in 1..Len(PipelineStages) : ran[i] = PipelineStages[k]
    /\ \A i, j \in 1..Len(ran) :
          i < j => StagePosition(ran[i]) < StagePosition(ran[j])
    /\ (ctx # None /\ ctx[1].next_step = "clarification_agent") =>
          ran = <<"context_agent">>
    /\ (ran # <<>> /\ LastRan = "ranking_agent") => pc \in {"finish", "idle"}

\* C30: a request that has been accepted is eventually answered, and the
\* stages run for it are each run at most once, in the order context,
\* research, styling, ranking, none after ranking and none after a
\* clarification decision.
C30_TurnEndsStagesInOrder ==
    /\ []StagesInOrder
    /\ (pc # "idle") ~> (pc = "idle" /\ response # None)

\* a request answered after each of the four stages ran once
C30_Witness ==
    /\ Answered
    /\ response[1].status = 200
    /\ ran = PipelineStages
    /\ steps = Len(PipelineStages) + 2

====
